---- MODULE Spec2Model ----
(***************************************************************************)
(* A model of src/bot2.py: the open-interest / market-cap alert bot.       *)
(*                                                                         *)
(* Two specifications are given.                                           *)
(*   Spec       one call of job() after another: get_market_data,          *)
(*              get_all_bybit_oi (discovery and the per-symbol loop with   *)
(*              its sleeps), the join / ratio / sort / top-10 / delivery   *)
(*              of check_oi_ratio and the failure boundary of job().       *)
(*   StartSpec  the execution of the module body from the first line to    *)
(*              the guard of the main block (configuration, validation,    *)
(*              construction of the bot, the guard itself).                *)
(*                                                                         *)
(* Strings are sequences of one-character strings, so that upper(),        *)
(* endswith() and replace() are computed as Python computes them.          *)
(* A Python dict is a sequence of <<key, value>> pairs in insertion order. *)
(* Amounts are whole US dollars; a ratio is a reduced fraction <<n, d>>.   *)
(***************************************************************************)
EXTENDS Integers, Sequences, FiniteSets, TLC

(***************************************************************************)
(* Bounds and program constants                                            *)
(***************************************************************************)
\* number of contracts / coins in the long listings of the two providers
MaxContracts == 11
\* the length of the lists get_market_data is applied to on its own
MaxCoins == 3

MARKET_CAP_LIMIT == 100000000
batch_size == 10
TOP_N == 10
\* OI_ALERT_RATIO = 0.25
OI_ALERT_RATIO == <<1, 4>>

\* amounts are written in millions of dollars
Million == 1000 * 1000

(***************************************************************************)
(* Python values                                                           *)
(***************************************************************************)
\* a JSON field: a string, a number, null, or a key that is absent
Str(s) == [t |-> "str", s |-> s, n |-> 0]
Num(n) == [t |-> "num", s |-> <<>>, n |-> n]
Null == [t |-> "null", s |-> <<>>, n |-> 0]
Absent == [t |-> "absent", s |-> <<>>, n |-> 0]

\* d.get(key, default) on a field of a JSON object
Get(field, default) == IF field.t = "absent" THEN default ELSE field

LowerCase == <<"a","b","c","d","e","f","g","h","i","j","k","l","m",
               "n","o","p","q","r","s","t","u","v","w","x","y","z">>
UpperCase == <<"A","B","C","D","E","F","G","H","I","J","K","L","M",
               "N","O","P","Q","R","S","T","U","V","W","X","Y","Z">>

\* str.upper(): lowercase letters are mapped, every other character is kept
UpperChar(c) ==
    IF \E i \in 1..Len(LowerCase) : LowerCase[i] = c
    THEN UpperCase[CHOOSE i \in 1..Len(LowerCase) : LowerCase[i] = c]
    ELSE c

Upper(s) == [i \in 1..Len(s) |-> UpperChar(s[i])]

\* str.endswith(suffix)
EndsWith(s, suffix) ==
    /\ Len(s) >= Len(suffix)
    /\ SubSeq(s, Len(s) - Len(suffix) + 1, Len(s)) = suffix

\* str.replace(old, ""): every non-overlapping occurrence of old, scanning
\* from the left, is removed
RECURSIVE Remove(_, _)
Remove(s, old) ==
    IF Len(s) < Len(old) THEN s
    ELSE IF SubSeq(s, 1, Len(old)) = old
         THEN Remove(SubSeq(s, Len(old) + 1, Len(s)), old)
         ELSE <<Head(s)>> \o Remove(Tail(s), old)

\* dict: key in d, d[key], d[key] = value, keys
DictHas(d, k) == \E i \in 1..Len(d) : d[i][1] = k
DictGet(d, k) == d[CHOOSE i \in 1..Len(d) : d[i][1] = k][2]
\* mutant: a key that is present keeps its value
DictSet_keepFirst(d, k, v) ==
    IF DictHas(d, k) THEN d ELSE Append(d, <<k, v>>)

\* d[k] = v
DictSet(d, k, v) ==
    IF DictHas(d, k)
    THEN [i \in 1..Len(d) |-> IF d[i][1] = k THEN <<k, v>> ELSE d[i]]
    ELSE Append(d, <<k, v>>)
DictKeys(d) == {d[i][1] : i \in 1..Len(d)}

(***************************************************************************)
(* Ratios: oi / mc as an exact fraction                                    *)
(***************************************************************************)
RECURSIVE GCD(_, _)
GCD(a, b) == IF b = 0 THEN a ELSE GCD(b, a % b)

\* oi / mc for mc > 0 and oi >= 0
Div(oi, mc) == LET g == GCD(oi, mc) IN <<oi \div g, mc \div g>>

RatioGT(a, b) == a[1] * b[2] > b[1] * a[2]
RatioGE(a, b) == a[1] * b[2] >= b[1] * a[2]

\* round(n / d) to the nearest integer, ties to even, as the format
\* specifications .1% and .1f round
RoundHalfEven(n, d) ==
    LET q == n \div d
        r == n % d
    IN  IF 2 * r < d THEN q
        ELSE IF 2 * r > d THEN q + 1
        ELSE IF q % 2 = 0 THEN q ELSE q + 1

(***************************************************************************)
(* Identifiers used by the two providers                                   *)
(***************************************************************************)
USDT == <<"U","S","D","T">>
Trading == <<"T","r","a","d","i","n","g">>
Closed == <<"C","l","o","s","e","d">>
Unknown == <<"U","n","k","n","o","w","n">>
btc == <<"b","t","c">>
eth == <<"e","t","h">>
BTC == <<"B","T","C">>
ETH == <<"E","T","H">>
Bitcoin == <<"B","i","t","c","o","i","n">>
Ethereum == <<"E","t","h","e","r","e","u","m">>
\* the i-th coin of the long listings: its ticker at the market-data
\* provider (lowercase) and its contract at the exchange
\* the base coin of the contract USDTBUSDT
USDTB == <<"U","S","D","T","B">>
Ticker(i) == <<LowerCase[i]>>
Contract(i) == <<UpperCase[i]>> \o USDT
\* the provider lists by descending market cap; caps come in pairs, so
\* that ratios tie, and all are below the limit
LongCap(i) == (70 - 5 * ((i + 1) \div 2)) * Million

(***************************************************************************)
(* get_market_data (lines 21-64)                                           *)
(***************************************************************************)
Coin(symbol, name, market_cap) ==
    [symbol |-> symbol, name |-> name, market_cap |-> market_cap]

LongCoins == [i \in 1..MaxContracts |->
                 Coin(Str(Ticker(i)), Str(Ticker(i)), Num(LongCap(i)))]

\* the responses of GET /coins/markets the model draws from
MarketResponses == <<
    [kind |-> "transport_error", body |-> <<>>],
    [kind |-> "http_error", body |-> <<>>],
    [kind |-> "json_object", body |-> <<>>],
    [kind |-> "json_list", body |-> <<>>],
    [kind |-> "json_list", body |-> <<
        Coin(Str(btc), Str(Bitcoin), Num(50 * Million)),
        Coin(Str(eth), Str(Ethereum), Num(80 * Million)) >>],
    [kind |-> "json_list", body |-> <<
        Coin(Str(<<>>), Str(Bitcoin), Num(5 * Million)),
        Coin(Absent, Str(Bitcoin), Num(30 * Million)),
        Coin(Str(Ticker(1)), Str(Ticker(1)), Null),
        Coin(Str(Ticker(2)), Str(Ticker(2)), Absent),
        Coin(Str(Ticker(3)), Str(Ticker(3)), Num(0)),
        Coin(Str(Ticker(4)), Str(Ticker(4)), Num(0 - 5 * Million)),
        Coin(Str(Ticker(5)), Str(Ticker(5)), Num(MARKET_CAP_LIMIT)),
        Coin(Str(Ticker(6)), Str(Ticker(6)), Num(2 * MARKET_CAP_LIMIT)),
        Coin(Str(btc), Str(Bitcoin), Num(40 * Million)),
        Coin(Str(eth), Absent, Num(60 * Million)),
        Coin(Str(BTC), Str(BTC), Num(50 * Million)) >>],
    [kind |-> "json_list", body |-> <<
        Coin(Str(btc), Str(Bitcoin), Num(50 * Million)),
        Coin(Str(eth), Str(Ethereum), Str(<<"8","0">>)) >>],
    [kind |-> "json_list", body |-> <<
        Coin(Str(btc), Str(Bitcoin), Num(50 * Million)),
        Coin(Null, Str(Ethereum), Num(80 * Million)) >>],
    [kind |-> "json_list", body |-> LongCoins] >>

\* float(market_cap) of a JSON number: these amounts are below 2^53, where
\* the conversion is exact
Float(n) == n

\* mutant: the limit itself passes the filter
Included_upToLimit(market_cap) == market_cap > 0 /\ market_cap <= MARKET_CAP_LIMIT

\* line 50: the filter on the value
Included(market_cap) == market_cap > 0 /\ market_cap < MARKET_CAP_LIMIT

\* the loop of lines 43-54 over data[k..]; raised is TRUE when an entry
\* makes the loop body raise (caught at line 62)
RECURSIVE ScanCoins(_, _, _)
ScanCoins(data, k, coins) ==
    IF k > Len(data) THEN [raised |-> FALSE, coins |-> coins]
    ELSE LET coin == data[k]
             symfield == Get(coin.symbol, Str(<<>>))
             market_cap == coin.market_cap
         IN  IF symfield.t # "str"
             THEN [raised |-> TRUE, coins |-> coins]
             ELSE LET symbol == Upper(symfield.s) IN
                  IF symbol = <<>> \/ market_cap.t \in {"null", "absent"}
                  THEN ScanCoins(data, k + 1, coins)
                  ELSE IF market_cap.t # "num"
                       THEN [raised |-> TRUE, coins |-> coins]
                       ELSE IF Included(market_cap.n)
                            THEN ScanCoins(data, k + 1,
                                     DictSet(coins, symbol,
                                         [name |-> Get(coin.name, Str(Unknown)).s,
                                          market_cap |-> Float(market_cap.n)]))
                            ELSE ScanCoins(data, k + 1, coins)

\* the class of the exception the try block of lines 32-57 raises for a
\* response, "none" when it reaches a return statement
MarketRaises(resp) ==
    IF resp.kind \in {"transport_error", "http_error"} THEN "RequestException"
    ELSE IF resp.kind = "json_list" /\ ScanCoins(resp.body, 1, <<>>).raised
         THEN "Exception"
         ELSE "none"

\* mutant: only the handler of line 59 is there
Handled_requestsOnly(class) == class = "RequestException"

\* lines 59 and 62: the handlers of get_market_data
Handled(class) == class \in {"RequestException", "Exception"}

\* the mapping get_market_data returns for a response
MarketData(resp) ==
    IF resp.kind # "json_list" THEN <<>>
    ELSE LET r == ScanCoins(resp.body, 1, <<>>)
         IN  IF r.raised THEN <<>> ELSE r.coins

\* the provider entries the function is applied to one list at a time
EntryPool == {
    Coin(Str(btc), Str(Bitcoin), Num(50 * Million)),
    Coin(Str(BTC), Absent, Num(40 * Million)),
    Coin(Str(btc), Str(btc), Num(2 * MARKET_CAP_LIMIT)),
    Coin(Str(btc), Str(btc), Null),
    Coin(Str(eth), Str(Ethereum), Absent),
    Coin(Str(eth), Str(Ethereum), Num(0)),
    Coin(Str(eth), Str(Ethereum), Num(0 - 5 * Million)),
    Coin(Str(eth), Str(Ethereum), Num(MARKET_CAP_LIMIT)),
    Coin(Str(eth), Str(Ethereum), Num(MARKET_CAP_LIMIT - 1)),
    Coin(Str(eth), Str(Ethereum), Str(<<"8","0">>)),
    Coin(Str(<<>>), Str(Ethereum), Num(5 * Million)),
    Coin(Str(<<>>), Str(Ethereum), Str(<<"8","0">>)),
    Coin(Absent, Str(Ethereum), Num(30 * Million)),
    Coin(Null, Str(Ethereum), Num(80 * Million)) }

\* the responses of GET /coins/markets with at most MaxCoins entries
MarketInputs ==
    {[kind |-> k, body |-> <<>>] :
         k \in {"transport_error", "http_error", "json_object"}}
    \cup {[kind |-> "json_list", body |-> b] :
             b \in UNION {[1..n -> EntryPool] : n \in 0..MaxCoins}}

(***************************************************************************)
(* get_all_bybit_oi, discovery (lines 71-91)                               *)
(***************************************************************************)
Instrument(symbol, status) == [symbol |-> symbol, status |-> status]

LongInstruments == [i \in 1..MaxContracts |->
                       Instrument(Str(Contract(i)), Str(Trading))]

\* the responses of GET /v5/market/instruments-info the model draws from
InstrumentResponses == <<
    [kind |-> "transport_error", retCode |-> Absent, hasList |-> FALSE, list |-> <<>>],
    [kind |-> "http_error", retCode |-> Absent, hasList |-> FALSE, list |-> <<>>],
    [kind |-> "json", retCode |-> Num(10001), hasList |-> FALSE, list |-> <<>>],
    [kind |-> "json", retCode |-> Absent, hasList |-> TRUE, list |-> <<
        Instrument(Str(BTC \o USDT), Str(Trading)) >>],
    [kind |-> "json", retCode |-> Num(0), hasList |-> FALSE, list |-> <<>>],
    [kind |-> "json", retCode |-> Num(0), hasList |-> TRUE, list |-> <<
        Instrument(Str(BTC \o USDT), Str(Trading)),
        Instrument(Absent, Str(Trading)) >>],
    [kind |-> "json", retCode |-> Num(0), hasList |-> TRUE, list |-> <<>>],
    [kind |-> "json", retCode |-> Num(0), hasList |-> TRUE, list |-> <<
        Instrument(Str(BTC \o <<"P","E","R","P">>), Str(Trading)),
        Instrument(Str(BTC \o USDT), Str(Trading)),
        Instrument(Str(Contract(1)), Str(Closed)),
        Instrument(Str(ETH \o USDT), Str(Trading)),
        Instrument(Str(Contract(2)), Absent),
        Instrument(Str(Contract(3)), Str(Trading)),
        Instrument(Str(USDTB \o USDT), Str(Trading)) >>],
    [kind |-> "json", retCode |-> Num(0), hasList |-> TRUE, list |-> LongInstruments] >>

\* mutant: the status is not looked at
Tradeable_anyStatus(i) == EndsWith(i.symbol.s, USDT)

\* line 85: the condition of the list comprehension
Tradeable(i) ==
    /\ EndsWith(i.symbol.s, USDT)
    /\ i.status.t = "str"
    /\ i.status.s = Trading

\* the list comprehension of lines 83-86 over list[k..]
RECURSIVE ScanInstruments(_, _, _)
ScanInstruments(list, k, symbols) ==
    IF k > Len(list) THEN [raised |-> FALSE, symbols |-> symbols]
    ELSE LET i == list[k] IN
         IF i.symbol.t # "str"
         THEN [raised |-> TRUE, symbols |-> symbols]
         ELSE IF Tradeable(i)
              THEN ScanInstruments(list, k + 1, Append(symbols, i.symbol.s))
              ELSE ScanInstruments(list, k + 1, symbols)

\* step 1 of get_all_bybit_oi: failed is TRUE when the function returns {}
\* at line 81 or line 91
Discovery(resp) ==
    IF resp.kind # "json" THEN [failed |-> TRUE, symbols |-> <<>>]
    ELSE IF ~(resp.retCode.t = "num" /\ resp.retCode.n = 0)
         THEN [failed |-> TRUE, symbols |-> <<>>]
         ELSE IF ~resp.hasList THEN [failed |-> TRUE, symbols |-> <<>>]
              ELSE LET r == ScanInstruments(resp.list, 1, <<>>)
                   IN  [failed |-> r.raised,
                        symbols |-> IF r.raised THEN <<>> ELSE r.symbols]

(***************************************************************************)
(* get_all_bybit_oi, one iteration of the per-symbol loop (lines 98-119)   *)
(***************************************************************************)
OiEntry(openInterest, openInterestUsd) ==
    [openInterest |-> openInterest, openInterestUsd |-> openInterestUsd]

OiOk(usd) == [kind |-> "json", retCode |-> Num(0),
              list |-> <<OiEntry(Num(usd \div 10), Num(usd))>>]

\* the open interest in USD the exchange may report for a contract
Quotes(sym) ==
    IF sym = ETH \o USDT THEN {15 * Million, 20 * Million}
    ELSE IF sym = Contract(1) THEN {3 * Million, 20 * Million}
    ELSE {20 * Million}

\* the responses of GET /v5/market/open-interest for a contract, other
\* than a well-formed quote
OiFailures == <<
    [kind |-> "transport_error", retCode |-> Absent, list |-> <<>>],
    [kind |-> "http_error", retCode |-> Absent, list |-> <<>>],
    [kind |-> "json", retCode |-> Num(10001), list |-> <<>>],
    [kind |-> "json", retCode |-> Absent, list |-> <<>>],
    [kind |-> "json", retCode |-> Num(0), list |-> <<>>],
    [kind |-> "json", retCode |-> Num(0),
     list |-> <<OiEntry(Num(2), Str(<<>>))>>],
    [kind |-> "json", retCode |-> Num(0),
     list |-> <<OiEntry(Null, Num(20 * Million))>>] >>

\* a quote without the openInterestUsd field
OiNoUsd == [kind |-> "json", retCode |-> Num(0),
            list |-> <<OiEntry(Num(2), Absent)>>]

\* float(x) of a response field: x is a number (or a numeric string), or
\* the conversion raises
CanFloat(field) == field.t = "num"

SleepOk == 120
SleepError == 500
SleepBatch == 1000

\* sym.replace("USDT", "")
BaseCoin(sym) == Remove(sym, USDT)

\* the body of the inner loop for one symbol: the outcome, the mapping
\* afterwards and the milliseconds slept before the next statement
FetchOne(sym, resp, oi) ==
    IF resp.kind # "json"
    THEN [outcome |-> "exception", oi_data |-> oi, slept |-> SleepError]
    ELSE IF ~(resp.retCode.t = "num" /\ resp.retCode.n = 0)
         THEN [outcome |-> "retcode", oi_data |-> oi, slept |-> 0]
         ELSE IF resp.list = <<>>
              THEN [outcome |-> "empty", oi_data |-> oi, slept |-> SleepOk]
              ELSE LET oi_value == Get(resp.list[1].openInterest, Num(0))
                       oi_usd == Get(resp.list[1].openInterestUsd, Num(0))
                   IN  IF CanFloat(oi_value) /\ CanFloat(oi_usd)
                       THEN [outcome |-> "ok",
                             oi_data |-> DictSet(oi, BaseCoin(sym), Float(oi_usd.n)),
                             slept |-> SleepOk]
                       ELSE [outcome |-> "exception", oi_data |-> oi,
                             slept |-> SleepError]

(***************************************************************************)
(* check_oi_ratio: join, ratio, threshold, sort, message (lines 141-160)   *)
(***************************************************************************)
\* mutant: the threshold test lets ratio == OI_ALERT_RATIO through
Exceeds_orEqual(ratio) == RatioGE(ratio, OI_ALERT_RATIO)

\* line 149: ratio > OI_ALERT_RATIO
Exceeds(ratio) == RatioGT(ratio, OI_ALERT_RATIO)

\* mutant: the membership test of line 143 is lost and a missing symbol
\* reads a default open interest
JoinAlert_noJoin(symbol, coin, oi) ==
    LET oiv == IF DictHas(oi, symbol) THEN DictGet(oi, symbol) ELSE MARKET_CAP_LIMIT
        mc == coin.market_cap
    IN  IF mc <= 0 THEN <<>>
        ELSE IF RatioGT(Div(oiv, mc), OI_ALERT_RATIO)
             THEN << [symbol |-> symbol, ratio |-> Div(oiv, mc),
                      mc |-> mc, oi |-> oiv] >>
             ELSE <<>>

\* the body of the loop of lines 142-150 for one item of mc_data: the
\* alerts it appends (none or one)
JoinAlert(symbol, coin, oi) ==
    IF ~DictHas(oi, symbol) THEN <<>>
    ELSE LET oiv == DictGet(oi, symbol)
             mc == coin.market_cap
         IN  IF mc <= 0 THEN <<>>
             ELSE IF Exceeds(Div(oiv, mc))
                  THEN << [symbol |-> symbol, ratio |-> Div(oiv, mc),
                           mc |-> mc, oi |-> oiv] >>
                  ELSE <<>>

RECURSIVE ScanCaps(_, _, _)
ScanCaps(mc, oi, k) ==
    IF k > Len(mc) THEN <<>>
    ELSE JoinAlert(mc[k][1], mc[k][2], oi) \o ScanCaps(mc, oi, k + 1)

\* mutant: reverse=True is lost, the sort is ascending
InsertDesc_ascending(sorted, a) ==
    LET ahead == {k \in 1..Len(sorted) : RatioGE(a.ratio, sorted[k].ratio)}
        n == IF ahead = {} THEN 0
             ELSE CHOOSE k \in ahead : \A m \in ahead : m <= k
    IN  SubSeq(sorted, 1, n) \o <<a>> \o SubSeq(sorted, n + 1, Len(sorted))

\* list.sort(key=ratio, reverse=True) is stable: an element goes behind
\* every element whose ratio is at least its own
InsertDesc(sorted, a) ==
    LET ahead == {k \in 1..Len(sorted) : RatioGE(sorted[k].ratio, a.ratio)}
        n == IF ahead = {} THEN 0
             ELSE CHOOSE k \in ahead : \A m \in ahead : m <= k
    IN  SubSeq(sorted, 1, n) \o <<a>> \o SubSeq(sorted, n + 1, Len(sorted))

RECURSIVE SortDesc(_)
SortDesc(alerts) ==
    IF alerts = <<>> THEN <<>>
    ELSE InsertDesc(SortDesc(SubSeq(alerts, 1, Len(alerts) - 1)),
                    alerts[Len(alerts)])

\* alerts[:10]
TopSlice(alerts) ==
    SubSeq(alerts, 1, IF Len(alerts) < TOP_N THEN Len(alerts) ELSE TOP_N)

\* one line pair of the message: the symbol, the ratio in tenths of a
\* per cent (.1%), market cap and open interest in tenths of a million (.1f)
Line(a) == [sym |-> a.symbol,
            ratio |-> RoundHalfEven(a.ratio[1] * 1000, a.ratio[2]),
            mc |-> RoundHalfEven(a.mc, Million \div 10),
            oi |-> RoundHalfEven(a.oi, Million \div 10)]

\* the text built at lines 156-160: the threshold in per cent (.0%) and
\* the line pairs
Message(alerts) ==
    [threshold |-> RoundHalfEven(OI_ALERT_RATIO[1] * 100, OI_ALERT_RATIO[2]),
     lines |-> [k \in 1..Len(TopSlice(alerts)) |-> Line(TopSlice(alerts)[k])]]

\* mutant: the message is sent whether or not there are alerts
HasAlerts_always(alerts) == TRUE

\* line 155: if alerts
HasAlerts(alerts) == alerts # <<>>

\* mutant: the test of oi_data (lines 137-139) is lost
SkipRun_capsOnly(mc, oi) == mc = <<>>

\* lines 134-139: an empty mapping ends the run
SkipRun(mc, oi) == mc = <<>> \/ oi = <<>>

(***************************************************************************)
(* State                                                                   *)
(***************************************************************************)
VARIABLES
    pc,              \* where the process is
    due,             \* a call of job() is pending (line 187 or line 197)
    response,        \* the response get_market_data holds (line 34)
    env,             \* the environment of the process
    TELEGRAM_TOKEN,  \* module globals (lines 9, 10, 18)
    CHAT_ID,
    bot,
    mc_data,         \* locals of check_oi_ratio and get_all_bybit_oi
    oi_data,
    symbols,
    batch_i,         \* i of line 96: the offset of the current batch
    batch_pos,       \* the position of sym inside the batch (line 98)
    alerts,
    discovery,       \* "none", "ok" or "failed": how step 1 ended
    json_resp,       \* the response step 1 received (line 78)
    gets,            \* the requests of this run to the two list endpoints
    reqs,            \* the contracts requested from the open-interest endpoint
    okSyms,          \* the contracts whose iteration stored an entry
    pause,           \* milliseconds slept since the last such request
    evaluated,       \* the loop of lines 142-150 has run
    calls,           \* the calls of bot.send_message made by this run
    steps,           \* the steps this run has taken
    exc,             \* an exception is propagating
    raised,          \* job() has caught an exception of this run
    failed           \* job() caught an exception of the previous run

vars == <<pc, due, response, env, TELEGRAM_TOKEN, CHAT_ID, bot, mc_data,
          oi_data, symbols, batch_i, batch_pos, alerts, discovery, json_resp,
          gets, reqs, okSyms, pause, evaluated, calls, steps, exc, raised,
          failed>>

globals == <<env, TELEGRAM_TOKEN, CHAT_ID, bot>>
locals == <<mc_data, oi_data, symbols, batch_i, batch_pos, alerts>>
observed == <<discovery, json_resp, gets, reqs, okSyms, pause, evaluated, calls>>

\* no response is held
NoResponse == [kind |-> "none", body |-> <<>>]
NoInstruments == [kind |-> "none", retCode |-> Absent, hasList |-> FALSE,
                  list |-> <<>>]
NoGets == [markets |-> 0, instruments |-> 0]

Secret == <<"s","e","c","r","e","t">>

\* the statements of a run that are inside check_oi_ratio
RunPcs == {"start", "discover", "oi_loop", "check", "evaluate", "deliver"}

\* mutant: the mapping of line 69 is a module global that outlives the call
FreshLocals_keepOi ==
    /\ mc_data' = <<>>
    /\ oi_data' = oi_data
    /\ symbols' = <<>>
    /\ batch_i' = 0
    /\ batch_pos' = 0
    /\ alerts' = <<>>

\* the locals of a call that has not run yet, or has returned
FreshLocals ==
    /\ mc_data' = <<>>
    /\ oi_data' = <<>>
    /\ symbols' = <<>>
    /\ batch_i' = 0
    /\ batch_pos' = 0
    /\ alerts' = <<>>

FreshObserved ==
    /\ discovery' = "none"
    /\ json_resp' = NoInstruments
    /\ gets' = NoGets
    /\ reqs' = <<>>
    /\ okSyms' = {}
    /\ pause' = 0
    /\ evaluated' = FALSE
    /\ calls' = <<>>

\* the module is loaded with both secrets set; no run is in progress
Init ==
    /\ pc = "idle"
    /\ due = TRUE
    /\ response = NoResponse
    /\ env = [TELEGRAM_TOKEN |-> Str(Secret), CHAT_ID |-> Str(Secret)]
    /\ TELEGRAM_TOKEN = Str(Secret)
    /\ CHAT_ID = Str(Secret)
    /\ bot = [token |-> Str(Secret)]
    /\ mc_data = <<>>
    /\ oi_data = <<>>
    /\ symbols = <<>>
    /\ batch_i = 0
    /\ batch_pos = 0
    /\ alerts = <<>>
    /\ discovery = "none"
    /\ json_resp = NoInstruments
    /\ gets = NoGets
    /\ reqs = <<>>
    /\ okSyms = {}
    /\ pause = 0
    /\ evaluated = FALSE
    /\ calls = <<>>
    /\ steps = 0
    /\ exc = FALSE
    /\ raised = FALSE
    /\ failed = FALSE

(***************************************************************************)
(* job() and check_oi_ratio()                                              *)
(***************************************************************************)
\* the five minutes of line 190 have passed since the job was last
\* scheduled: the job is due, whatever the process is doing
Tick ==
    /\ ~due
    /\ due' = TRUE
    /\ UNCHANGED <<pc, response, globals, locals, observed, steps, exc, raised,
                   failed>>

\* mutant: the pending call is made by a thread of its own
CanStart_anywhere(at) == TRUE

\* the pending call of job() is made (line 187, or inside run_pending at
\* line 197) by the one thread of the process, which is not inside job()
CanStart(at) == at = "idle"

\* job() is called and enters its try block
JobStart ==
    /\ due
    /\ CanStart(pc)
    /\ due' = FALSE
    /\ pc' = "start"
    /\ FreshLocals
    /\ FreshObserved
    /\ steps' = 0
    /\ UNCHANGED <<globals, response, exc, raised, failed>>

\* line 131: mc_data = get_market_data(); the response is a local of the
\* call and is gone when it returns
GetMarketData ==
    /\ pc = "start"
    /\ \E k \in 1..Len(MarketResponses) :
           mc_data' = MarketData(MarketResponses[k])
    /\ gets' = [gets EXCEPT !.markets = @ + 1]
    /\ pc' = "discover"
    /\ steps' = steps + 1
    /\ UNCHANGED <<globals, response, due, oi_data, symbols, batch_i, batch_pos,
                   alerts, discovery, json_resp, reqs, okSyms, pause,
                   evaluated, calls, exc, raised, failed>>

\* step 1 of get_all_bybit_oi; with no symbol the loop of line 96 does not
\* run and the function returns at once
Discover ==
    /\ pc = "discover"
    /\ \E k \in 1..Len(InstrumentResponses) :
           LET d == Discovery(InstrumentResponses[k]) IN
               /\ json_resp' = InstrumentResponses[k]
               /\ symbols' = d.symbols
               /\ discovery' = IF d.failed THEN "failed" ELSE "ok"
               /\ pc' = IF d.symbols = <<>> THEN "check" ELSE "oi_loop"
    /\ gets' = [gets EXCEPT !.instruments = @ + 1]
    /\ steps' = steps + 1
    /\ UNCHANGED <<globals, response, due, mc_data, oi_data, batch_i, batch_pos,
                   alerts, reqs, okSyms, pause, evaluated, calls, exc, raised,
                   failed>>

\* the request was answered with retCode 0 and a non-empty list whose
\* first entry has numeric openInterest and openInterestUsd (or lacks them)
Quoted(resp) ==
    /\ resp.kind = "json"
    /\ resp.retCode = Num(0)
    /\ Len(resp.list) > 0
    /\ resp.list[1].openInterest.t \in {"num", "absent"}
    /\ resp.list[1].openInterestUsd.t \in {"num", "absent"}

\* the responses the exchange may give to the request for sym
OiResponses(sym) ==
    {OiFailures[k] : k \in 1..Len(OiFailures)}
        \cup {OiOk(q) : q \in Quotes(sym)}
        \cup (IF sym = ETH \o USDT THEN {OiNoUsd} ELSE {})

\* mutant: an exception ends the loop instead of the iteration
GoesOn_unlessException(outcome) == outcome # "exception"

\* lines 105-106 and 117-119: after any outcome the loop goes on with the
\* next symbol
GoesOn(outcome) == TRUE

\* the milliseconds slept at line 122 once the batch at offset i is done
BatchSleep(i, n) == IF i + batch_size < n THEN SleepBatch ELSE 0

\* one iteration of the inner loop (lines 98-119), and the end of the
\* batch (lines 121-122) and of the function (lines 124-125) when it is
\* the last one
FetchOI ==
    /\ pc = "oi_loop"
    /\ LET n == Len(symbols)
           sym == symbols[batch_i + batch_pos + 1]
           lastOfBatch == batch_pos + 1 >= batch_size \/ batch_i + batch_pos + 1 >= n
       IN  \E resp \in OiResponses(sym) :
             LET r == FetchOne(sym, resp, oi_data) IN
               /\ reqs' = Append(reqs, sym)
               /\ oi_data' = r.oi_data
               /\ okSyms' = IF Quoted(resp) THEN okSyms \cup {sym} ELSE okSyms
               /\ IF ~GoesOn(r.outcome)
                  THEN /\ pause' = r.slept
                       /\ batch_i' = batch_i
                       /\ batch_pos' = batch_pos
                       /\ pc' = "check"
                  ELSE IF lastOfBatch
                  THEN /\ pause' = r.slept + BatchSleep(batch_i, n)
                       /\ batch_i' = batch_i + batch_size
                       /\ batch_pos' = 0
                       /\ pc' = IF batch_i + batch_size < n THEN "oi_loop" ELSE "check"
                  ELSE /\ pause' = r.slept
                       /\ batch_i' = batch_i
                       /\ batch_pos' = batch_pos + 1
                       /\ pc' = "oi_loop"
    /\ steps' = steps + 1
    /\ UNCHANGED <<globals, response, due, mc_data, symbols, alerts, discovery,
                   json_resp, gets, evaluated, calls, exc, raised, failed>>

\* mutant: with a mapping empty the run starts over instead of ending
CheckData_retry ==
    /\ pc = "check"
    /\ pc' = IF SkipRun(mc_data, oi_data) THEN "start" ELSE "evaluate"
    /\ steps' = steps + 1
    /\ UNCHANGED <<globals, response, due, locals, observed, exc, raised, failed>>

\* lines 134-139
CheckData ==
    /\ pc = "check"
    /\ pc' = IF SkipRun(mc_data, oi_data) THEN "job_end" ELSE "evaluate"
    /\ steps' = steps + 1
    /\ UNCHANGED <<globals, response, due, locals, observed, exc, raised, failed>>

\* mutant: the list is cut to ten before it is sorted
Ranked_cutFirst(mc, oi) == SortDesc(TopSlice(ScanCaps(mc, oi, 1)))

\* lines 141-153: the alerts of this run, ranked
Ranked(mc, oi) == SortDesc(ScanCaps(mc, oi, 1))

Evaluate ==
    /\ pc = "evaluate"
    /\ alerts' = Ranked(mc_data, oi_data)
    /\ evaluated' = TRUE
    /\ pc' = "deliver"
    /\ steps' = steps + 1
    /\ UNCHANGED <<globals, response, due, mc_data, oi_data, symbols, batch_i,
                   batch_pos, discovery, json_resp, gets, reqs, okSyms, pause,
                   calls, exc, raised, failed>>

\* mutant: the call of line 162 is outside any try block
SendFailureCaught_not == FALSE

\* lines 161 and 164: the call is inside try ... except Exception
SendFailureCaught == TRUE

\* lines 155-167: one call of bot.send_message when there are alerts; the
\* call returns or raises (caught at line 164)
Deliver ==
    /\ pc = "deliver"
    /\ IF HasAlerts(alerts)
       THEN \E ok \in BOOLEAN :
               /\ calls' = Append(calls, [chat_id |-> CHAT_ID,
                                          text |-> Message(alerts),
                                          delivered |-> ok])
               /\ IF ok \/ SendFailureCaught
                  THEN /\ pc' = "job_end"
                       /\ UNCHANGED <<locals, exc>>
                  ELSE /\ pc' = "job_except"
                       /\ exc' = TRUE
                       /\ FreshLocals
       ELSE /\ calls' = calls
            /\ pc' = "job_end"
            /\ UNCHANGED <<locals, exc>>
    /\ steps' = steps + 1
    /\ UNCHANGED <<globals, response, due, discovery, json_resp, gets, reqs,
                   okSyms, pause, evaluated, raised, failed>>

\* a statement of check_oi_ratio, or of a function it calls, raises an
\* Exception that no handler inside check_oi_ratio catches; the frames
\* are unwound and their locals are gone
UnexpectedError ==
    /\ pc \in RunPcs
    /\ exc' = TRUE
    /\ pc' = "job_except"
    /\ FreshLocals
    /\ steps' = steps + 1
    /\ UNCHANGED <<globals, response, due, observed, raised, failed>>

\* mutant: job() has no handler, the exception leaves job() and ends the
\* process
JobExcept_propagates ==
    /\ pc = "job_except"
    /\ pc' = "crashed"
    /\ steps' = steps + 1
    /\ UNCHANGED <<globals, response, due, locals, observed, exc, raised, failed>>

\* lines 177-178: except Exception
JobExcept ==
    /\ pc = "job_except"
    /\ exc' = FALSE
    /\ raised' = TRUE
    /\ pc' = "job_end"
    /\ steps' = steps + 1
    /\ UNCHANGED <<globals, response, due, locals, observed, failed>>

\* line 179: job() returns to its caller
JobEnd ==
    /\ pc = "job_end"
    /\ pc' = "idle"
    /\ failed' = raised
    /\ raised' = FALSE
    /\ FreshLocals
    /\ FreshObserved
    /\ steps' = 0
    /\ UNCHANGED <<globals, response, due, exc>>

Next ==
    \/ Tick
    \/ JobStart
    \/ GetMarketData
    \/ Discover
    \/ FetchOI
    \/ CheckData
    \/ Evaluate
    \/ Deliver
    \/ UnexpectedError
    \/ JobExcept
    \/ JobEnd

Spec == Init /\ [][Next]_vars

(***************************************************************************)
(* The module body: configuration and the guard of the main block          *)
(***************************************************************************)
\* what os.getenv may return: None (unset), "" or a non-empty string
EnvValues == {Null, Str(<<>>), Str(<<"0">>), Str(<<" ">>), Str(Secret)}

\* not x, for x None or a string
Falsy(x) == x.t = "null" \/ (x.t = "str" /\ x.s = <<>>)

\* mutant: the test of line 15 with `and`
ConfigMissing_both(token, chat) == Falsy(token) /\ Falsy(chat)

\* line 15: not TELEGRAM_TOKEN or not CHAT_ID
ConfigMissing(token, chat) == Falsy(token) \/ Falsy(chat)

StartInit ==
    /\ pc = "line9"
    /\ due = FALSE
    /\ response = NoResponse
    /\ env \in [TELEGRAM_TOKEN : EnvValues, CHAT_ID : EnvValues]
    /\ TELEGRAM_TOKEN = Absent
    /\ CHAT_ID = Absent
    /\ bot = [token |-> Absent]
    /\ mc_data = <<>>
    /\ oi_data = <<>>
    /\ symbols = <<>>
    /\ batch_i = 0
    /\ batch_pos = 0
    /\ alerts = <<>>
    /\ discovery = "none"
    /\ json_resp = NoInstruments
    /\ gets = NoGets
    /\ reqs = <<>>
    /\ okSyms = {}
    /\ pause = 0
    /\ evaluated = FALSE
    /\ calls = <<>>
    /\ steps = 0
    /\ exc = FALSE
    /\ raised = FALSE
    /\ failed = FALSE

run == <<due, response, locals, observed, steps, exc, raised, failed>>

\* line 9
LoadToken ==
    /\ pc = "line9"
    /\ TELEGRAM_TOKEN' = env.TELEGRAM_TOKEN
    /\ pc' = "line10"
    /\ UNCHANGED <<env, CHAT_ID, bot, run>>

\* line 10
LoadChatId ==
    /\ pc = "line10"
    /\ CHAT_ID' = env.CHAT_ID
    /\ pc' = "line15"
    /\ UNCHANGED <<env, TELEGRAM_TOKEN, bot, run>>

\* lines 15-16: the module raises EnvironmentError and the process ends
ValidateConfig ==
    /\ pc = "line15"
    /\ pc' = IF ConfigMissing(TELEGRAM_TOKEN, CHAT_ID)
             THEN "EnvironmentError" ELSE "line18"
    /\ UNCHANGED <<globals, run>>

\* line 18; the def statements of lines 21-179 only bind names
MakeBot ==
    /\ pc = "line18"
    /\ bot' = [token |-> TELEGRAM_TOKEN]
    /\ pc' = "line183"
    /\ UNCHANGED <<env, TELEGRAM_TOKEN, CHAT_ID, run>>

\* line 183: the guard reads the name _name_, which nothing binds; the
\* module raises NameError and the process ends
MainGuard ==
    /\ pc = "line183"
    /\ pc' = "NameError"
    /\ UNCHANGED <<globals, run>>

StartNext ==
    \/ LoadToken
    \/ LoadChatId
    \/ ValidateConfig
    \/ MakeBot
    \/ MainGuard

StartSpec == StartInit /\ [][StartNext]_vars

(***************************************************************************)
(* get_market_data on its own                                              *)
(***************************************************************************)
\* line 34 has been executed: the request has returned a response or failed
MarketInit ==
    /\ pc = "line35"
    /\ response \in MarketInputs
    /\ due = FALSE
    /\ env = [TELEGRAM_TOKEN |-> Str(Secret), CHAT_ID |-> Str(Secret)]
    /\ TELEGRAM_TOKEN = Str(Secret)
    /\ CHAT_ID = Str(Secret)
    /\ bot = [token |-> Str(Secret)]
    /\ mc_data = <<>>
    /\ oi_data = <<>>
    /\ symbols = <<>>
    /\ batch_i = 0
    /\ batch_pos = 0
    /\ alerts = <<>>
    /\ discovery = "none"
    /\ json_resp = NoInstruments
    /\ gets = [markets |-> 1, instruments |-> 0]
    /\ reqs = <<>>
    /\ okSyms = {}
    /\ pause = 0
    /\ evaluated = FALSE
    /\ calls = <<>>
    /\ steps = 0
    /\ exc = FALSE
    /\ raised = FALSE
    /\ failed = FALSE

\* lines 35-64: the rest of get_market_data, up to its return to line 131
\* or to the exception leaving it
FinishMarketData ==
    /\ pc = "line35"
    /\ LET class == MarketRaises(response) IN
         IF class = "none" \/ Handled(class)
         THEN /\ mc_data' = MarketData(response)
              /\ exc' = FALSE
              /\ pc' = "line131"
         ELSE /\ mc_data' = <<>>
              /\ exc' = TRUE
              /\ pc' = "job_except"
    /\ steps' = steps + 1
    /\ UNCHANGED <<globals, response, due, oi_data, symbols, batch_i, batch_pos,
                   alerts, observed, raised, failed>>

MarketNext == FinishMarketData

MarketSpec == MarketInit /\ [][MarketNext]_vars

(***************************************************************************)
(* Properties                                                              *)
(***************************************************************************)
\* check_oi_ratio is past get_all_bybit_oi and its locals are alive
OiReturned ==
    \/ pc \in {"check", "evaluate", "deliver"}
    \/ pc = "job_end" /\ ~raised

\* check_oi_ratio has returned normally
RunReturned == pc = "job_end" /\ ~raised

\* C1: after a successful discovery every discovered contract is requested
\* exactly once, in discovery order, whatever earlier requests answered;
\* when the function returns, the keys of the mapping are exactly the base
\* symbols of the contracts that were answered with a well-formed quote
C1_EveryContractRequestedOnce ==
    /\ pc \in RunPcs =>
          /\ Len(reqs) <= Len(symbols)
          /\ reqs = SubSeq(symbols, 1, Len(reqs))
    /\ OiReturned /\ discovery = "ok" =>
          /\ reqs = symbols
          /\ DictKeys(oi_data) = {BaseCoin(sym) : sym \in okSyms}

C1_Witness ==
    /\ pc = "check"
    /\ discovery = "ok"
    /\ Len(reqs) > batch_size
    /\ symbols[1] \in okSyms
    /\ symbols[2] \notin okSyms
    /\ symbols[Len(symbols)] \in okSyms
    /\ DictHas(oi_data, BaseCoin(symbols[Len(symbols)]))

\* C2: no open-interest request is issued immediately after the previous
\* one: a sleep lies between any two consecutive requests
C2_PauseBetweenRequests ==
    [][(Len(reqs') = Len(reqs) + 1 /\ Len(reqs) > 0) => pause > 0]_vars

\* C3: a run whose market-cap mapping or open-interest mapping is empty
\* ends at the test of lines 134-139: the alerts are not computed and
\* bot.send_message is not called
C3_EmptyMappingNoCall ==
    RunReturned /\ (mc_data = <<>> \/ oi_data = <<>>) =>
        /\ calls = <<>>
        /\ ~evaluated

C3_Witness ==
    /\ RunReturned
    /\ mc_data = <<>>
    /\ oi_data # <<>>
    /\ calls = <<>>

\* C4: an exception raised inside check_oi_ratio never leaves job(): job()
\* catches it and returns, and its caller can start the next run
C4_JobCatchesEverything ==
    /\ pc # "crashed"
    /\ pc \in {"job_end", "idle"} => ~exc
    /\ pc = "idle" /\ due => ENABLED JobStart

C4_Witness ==
    /\ failed
    /\ pc = "start"

\* C5: with both secrets present startup never fails; a missing secret is
\* the only thing that ends the process at startup
C5_StartupFailsOnlyWithoutSecrets ==
    pc \in {"EnvironmentError", "NameError"} =>
        Falsy(env.TELEGRAM_TOKEN) \/ Falsy(env.CHAT_ID)

\* C6: every alert is for a symbol that is a key of both mappings
C6_AlertsAreJoined ==
    pc \in {"deliver", "job_end"} =>
        \A k \in 1..Len(alerts) :
            /\ alerts[k].symbol \in DictKeys(mc_data)
            /\ alerts[k].symbol \in DictKeys(oi_data)

C6_Witness ==
    /\ pc = "deliver"
    /\ alerts # <<>>
    /\ DictKeys(mc_data) \ DictKeys(oi_data) # {}
    /\ DictKeys(oi_data) \ DictKeys(mc_data) # {}

\* C7: every alert carries the market cap and the open interest of its
\* symbol, ratio == open interest / market cap, and ratio > OI_ALERT_RATIO
C7_RatioAboveThreshold ==
    pc \in {"deliver", "job_end"} =>
        \A k \in 1..Len(alerts) :
            LET a == alerts[k] IN
                /\ DictHas(mc_data, a.symbol)
                /\ DictHas(oi_data, a.symbol)
                /\ a.mc = DictGet(mc_data, a.symbol).market_cap
                /\ a.oi = DictGet(oi_data, a.symbol)
                /\ a.ratio[2] > 0
                /\ a.ratio[1] * a.mc = a.ratio[2] * a.oi
                /\ 4 * a.ratio[1] > a.ratio[2]

\* a symbol of both mappings whose ratio is exactly the threshold
AtThreshold(sym) ==
    /\ DictHas(mc_data, sym)
    /\ DictHas(oi_data, sym)
    /\ 4 * DictGet(oi_data, sym) = DictGet(mc_data, sym).market_cap

C7_Witness ==
    /\ pc = "deliver"
    /\ alerts # <<>>
    /\ \E sym \in DictKeys(mc_data) :
           /\ AtThreshold(sym)
           /\ \A k \in 1..Len(alerts) : alerts[k].symbol # sym

\* the symbols of both mappings with open interest / market cap > 1/4
Qualifying ==
    {sym \in DictKeys(mc_data) \cap DictKeys(oi_data) :
        /\ DictGet(mc_data, sym).market_cap > 0
        /\ 4 * DictGet(oi_data, sym) > DictGet(mc_data, sym).market_cap}

RatioOf(sym) == Div(DictGet(oi_data, sym), DictGet(mc_data, sym).market_cap)

Listed == {calls[1].text.lines[k].sym : k \in 1..Len(calls[1].text.lines)}

\* C8: the message lists min(10, n) distinct symbols of the n qualifying
\* ones, and no qualifying symbol left out has a higher ratio than a
\* listed one
C8_TopTenOfAll ==
    RunReturned /\ calls # <<>> =>
        /\ Len(calls[1].text.lines) <= 10
        /\ Len(calls[1].text.lines) =
              (IF Cardinality(Qualifying) < 10 THEN Cardinality(Qualifying) ELSE 10)
        /\ Cardinality(Listed) = Len(calls[1].text.lines)
        /\ Listed \subseteq Qualifying
        /\ \A out \in Qualifying \ Listed : \A in \in Listed :
               ~RatioGT(RatioOf(out), RatioOf(in))

C8_Witness ==
    /\ RunReturned
    /\ calls # <<>>
    /\ Cardinality(Qualifying) > 10
    /\ Len(calls[1].text.lines) = 10

\* C9: after the sort the alert list is non-increasing by ratio
C9_SortedDescending ==
    pc \in {"deliver", "job_end"} =>
        \A k \in 1..(Len(alerts) - 1) :
            alerts[k].ratio[1] * alerts[k + 1].ratio[2]
                >= alerts[k + 1].ratio[1] * alerts[k].ratio[2]

C9_Witness ==
    /\ pc = "deliver"
    /\ Len(alerts) >= 3
    /\ alerts # ScanCaps(mc_data, oi_data, 1)
    /\ \E k \in 1..(Len(alerts) - 1) : alerts[k].ratio = alerts[k + 1].ratio
    /\ alerts[1].ratio # alerts[Len(alerts)].ratio

\* C10: bot.send_message is called only when there is at least one alert;
\* with both mappings non-empty and no qualifying symbol nothing is sent
C10_NoAlertNoCall ==
    RunReturned =>
        /\ calls # <<>> => alerts # <<>>
        /\ (evaluated /\ alerts = <<>>) => calls = <<>>
        /\ Len(calls) <= 1

C10_Witness ==
    /\ RunReturned
    /\ mc_data # <<>>
    /\ oi_data # <<>>
    /\ evaluated
    /\ alerts = <<>>
    /\ calls = <<>>


(***************************************************************************)
(* Claims about get_market_data                                            *)
(***************************************************************************)
\* get_market_data has returned to line 131
MarketReturned == pc = "line131"

\* entry k of the response carries a string symbol that normalizes to key
NamesKey(k, key) ==
    /\ response.body[k].symbol.t = "str"
    /\ Upper(response.body[k].symbol.s) = key

\* entry k of the response carries a number that passes the filter
HasCap(k) ==
    /\ response.body[k].market_cap.t = "num"
    /\ response.body[k].market_cap.n > 0
    /\ response.body[k].market_cap.n < MARKET_CAP_LIMIT

\* C11: every entry of the returned mapping has a non-empty key without
\* lowercase letters and a market cap above 0 and below MARKET_CAP_LIMIT,
\* and is the data of a source entry with that symbol and a numeric cap:
\* an entry with an empty symbol or a null or missing cap never appears
C11_MarketEntriesValid ==
    MarketReturned =>
        \A m \in 1..Len(mc_data) :
            LET key == mc_data[m][1]
                coin == mc_data[m][2]
            IN  /\ key # <<>>
                /\ \A c \in 1..Len(key) :
                       \A l \in 1..Len(LowerCase) : key[c] # LowerCase[l]
                /\ coin.market_cap > 0
                /\ coin.market_cap < MARKET_CAP_LIMIT
                /\ \E k \in 1..Len(response.body) :
                       /\ NamesKey(k, key)
                       /\ response.body[k].market_cap = Num(coin.market_cap)

C11_Witness ==
    /\ MarketReturned
    /\ Len(response.body) = 3
    /\ response.body[1].symbol = Str(<<>>)
    /\ response.body[2].market_cap = Null
    /\ response.body[3].market_cap = Num(MARKET_CAP_LIMIT - 1)
    /\ Len(mc_data) = 1

\* processing entry e makes the loop body raise: its symbol is neither a
\* string nor missing, or it has a symbol and its cap is not a number
Trips(e) ==
    \/ e.symbol.t \notin {"str", "absent"}
    \/ /\ e.symbol.t = "str"
       /\ e.symbol.s # <<>>
       /\ e.market_cap.t \notin {"num", "null", "absent"}

\* the response is one of the failures the function answers with {}
MarketFailure ==
    \/ response.kind \in {"transport_error", "http_error", "json_object"}
    \/ \E k \in 1..Len(response.body) : Trips(response.body[k])

\* C12: no exception leaves get_market_data; after a transport error, a
\* non-2xx status, a body that is not a list or a list with an entry the
\* loop trips on, it returns the empty mapping
C12_MarketDataNeverRaises ==
    /\ pc # "job_except"
    /\ ~exc
    /\ MarketReturned /\ MarketFailure => mc_data = <<>>

C12_Witness ==
    /\ MarketReturned
    /\ response.kind = "json_list"
    /\ Len(response.body) = 2
    /\ response.body[1] = Coin(Str(btc), Str(Bitcoin), Num(50 * Million))
    /\ Trips(response.body[2])
    /\ mc_data = <<>>

\* the data of entry k of the response, as the mapping stores it
Stored(k) ==
    [name |-> Get(response.body[k].name, Str(Unknown)).s,
     market_cap |-> response.body[k].market_cap.n]

\* C19 as stated: the mapping holds, for each key, the data of the last
\* provider entry whose symbol normalizes to that key
C19_LastEntryWins ==
    MarketReturned =>
        \A m \in 1..Len(mc_data) :
            \E k \in 1..Len(response.body) :
                /\ NamesKey(k, mc_data[m][1])
                /\ \A later \in (k + 1)..Len(response.body) :
                       ~NamesKey(later, mc_data[m][1])
                /\ mc_data[m][2] = Stored(k)

\* C19, amended: the mapping holds, for each key, the data of the last
\* provider entry whose symbol normalizes to that key and whose cap
\* passes the filter; an entry that is filtered out overwrites nothing
C19_LastIncludedEntryWins ==
    MarketReturned =>
        \A m \in 1..Len(mc_data) :
            \E k \in 1..Len(response.body) :
                /\ NamesKey(k, mc_data[m][1])
                /\ HasCap(k)
                /\ \A later \in (k + 1)..Len(response.body) :
                       ~(NamesKey(later, mc_data[m][1]) /\ HasCap(later))
                /\ mc_data[m][2] = Stored(k)

C19_Witness ==
    /\ MarketReturned
    /\ Len(response.body) = 2
    /\ response.body[1] = Coin(Str(btc), Str(Bitcoin), Num(50 * Million))
    /\ response.body[2] = Coin(Str(BTC), Absent, Num(40 * Million))
    /\ mc_data = << <<BTC, [name |-> Unknown, market_cap |-> 40 * Million]>> >>


(***************************************************************************)
(* Claims about get_all_bybit_oi                                           *)
(***************************************************************************)
\* the response step 1 received is one of its failures: a transport
\* error, a non-2xx status, a retCode other than 0, no instrument list, or
\* a list with an instrument that has no string symbol
DiscoveryFailure ==
    \/ json_resp.kind \in {"transport_error", "http_error"}
    \/ /\ json_resp.kind = "json"
       /\ \/ json_resp.retCode # Num(0)
          \/ ~json_resp.hasList
          \/ \E k \in 1..Len(json_resp.list) : json_resp.list[k].symbol.t # "str"

\* C13: after a failure of discovery the function has returned the empty
\* mapping and has requested no contract; every contract ever requested is
\* an instrument of the list whose symbol ends in USDT and whose status is
\* Trading
C13_DiscoveryFailureStopsRun ==
    /\ DiscoveryFailure =>
           /\ pc # "oi_loop"
           /\ reqs = <<>>
           /\ oi_data = <<>>
    /\ \A r \in 1..Len(reqs) :
           /\ Len(reqs[r]) >= 4
           /\ SubSeq(reqs[r], Len(reqs[r]) - 3, Len(reqs[r])) = USDT
           /\ \E k \in 1..Len(json_resp.list) :
                  json_resp.list[k] = Instrument(Str(reqs[r]), Str(Trading))

C13_Witness ==
    /\ pc = "check"
    /\ json_resp.retCode = Num(0)
    /\ Len(json_resp.list) = 2
    /\ json_resp.list[1] = Instrument(Str(BTC \o USDT), Str(Trading))
    /\ json_resp.list[2].symbol = Absent
    /\ reqs = <<>>
    /\ oi_data = <<>>

\* the identifier without its last four characters
TrailingStripped(sym) == SubSeq(sym, 1, Len(sym) - 4)

\* C14: the key under which a contract's open interest is stored is its
\* identifier with exactly one trailing USDT removed; an occurrence of
\* USDT elsewhere in the identifier is kept
C14_OneTrailingSuffixRemoved ==
    OiReturned =>
        DictKeys(oi_data) = {TrailingStripped(sym) : sym \in okSyms}


(***************************************************************************)
(* Claims about a run as a whole                                           *)
(***************************************************************************)
\* the run is at a statement it can execute: the loop of line 98 has a
\* symbol to request, any other position has its next statement
CanStep ==
    \/ pc \in {"start", "discover", "check", "evaluate", "deliver",
                "job_except", "job_end"}
    \/ /\ pc = "oi_loop"
       /\ batch_i + batch_pos < Len(symbols)
       /\ OiResponses(symbols[batch_i + batch_pos + 1]) # {}

\* a bound on the number of steps the run has left
Rank ==
    CASE pc = "idle" -> 0
      [] pc = "job_end" -> 1
      [] pc = "job_except" -> 2
      [] pc = "deliver" -> 3
      [] pc = "evaluate" -> 4
      [] pc = "check" -> 5
      [] pc = "oi_loop" -> 5 + (Len(symbols) - (batch_i + batch_pos))
      [] pc = "discover" -> 6 + MaxContracts
      [] pc = "start" -> 7 + MaxContracts
      [] OTHER -> 0 - 1

\* the requests the run has made so far: at most one to each list
\* endpoint, at most one per listed instrument and none twice
RequestsOnce ==
    /\ gets.markets <= 1
    /\ gets.instruments <= 1
    /\ Len(reqs) <= Len(json_resp.list)
    /\ \A a, b \in 1..Len(reqs) : reqs[a] = reqs[b] => a = b

\* C17: a run terminates when every request returns or fails: while it is
\* in progress it is at a statement it can execute, the steps it has taken
\* and a bound on the steps it has left never add up to more than the
\* bound it started with, and its requests are at most one to each list
\* endpoint and one per discovered symbol, none repeated
C17_RunTerminates ==
    /\ RequestsOnce
    /\ Rank >= 0
    /\ steps + Rank <= 7 + MaxContracts
    /\ pc # "idle" => CanStep

C17_Witness ==
    /\ pc = "job_end"
    /\ ~raised
    /\ gets = [markets |-> 1, instruments |-> 1]
    /\ Len(reqs) = MaxContracts
    /\ steps = 5 + MaxContracts
    /\ calls # <<>>


\* C15: two runs are never in progress at once: a pending call of job()
\* is served only by a start from the state where no run is in progress,
\* so a trigger that falls due during a run stays pending until the run
\* has finished, however many steps the run takes
C15_RunsNeverOverlap ==
    [][due /\ ~due' => pc = "idle" /\ pc' = "start"]_vars

C15_Witness ==
    /\ pc = "job_end"
    /\ due
    /\ Len(reqs) = MaxContracts
    /\ steps = 5 + MaxContracts

\* C16: a run calls bot.send_message at most once; when the call fails
\* the failure is caught inside check_oi_ratio: no other call follows and
\* the run ends without an exception reaching job()
C16_OneDeliveryAttempt ==
    /\ Len(calls) <= 1
    /\ calls # <<>> /\ ~calls[1].delivered =>
           /\ pc = "job_end"
           /\ ~exc
           /\ ~raised

C16_Witness ==
    /\ pc = "job_end"
    /\ Len(calls) = 1
    /\ ~calls[1].delivered
    /\ ~raised


(***************************************************************************)
(* Claims about startup and about what a run leaves behind                 *)
(***************************************************************************)
\* the variable is unset or set to the empty string
Unset(x) == x = Null \/ x = Str(<<>>)

\* C18: with TELEGRAM_TOKEN or CHAT_ID unset or empty the module never
\* gets past line 16: it ends with EnvironmentError, no bot is made, no
\* run of job() is started and no request is issued
C18_NoStartWithoutSecrets ==
    Unset(env.TELEGRAM_TOKEN) \/ Unset(env.CHAT_ID) =>
        /\ pc \in {"line9", "line10", "line15", "EnvironmentError"}
        /\ bot.token = Absent
        /\ steps = 0
        /\ gets = NoGets
        /\ reqs = <<>>
        /\ calls = <<>>

C18_Witness ==
    /\ pc = "EnvironmentError"
    /\ env.TELEGRAM_TOKEN = Str(Secret)
    /\ env.CHAT_ID = Str(<<>>)

\* C20: no state is carried from one run to the next: every run starts
\* with the same module globals and with empty locals, whatever the runs
\* before it received or did, so what it does depends only on the
\* responses it receives
C20_NoStateCarriedOver ==
    /\ env = [TELEGRAM_TOKEN |-> Str(Secret), CHAT_ID |-> Str(Secret)]
    /\ TELEGRAM_TOKEN = Str(Secret)
    /\ CHAT_ID = Str(Secret)
    /\ bot = [token |-> Str(Secret)]
    /\ pc = "start" =>
           /\ mc_data = <<>>
           /\ oi_data = <<>>
           /\ symbols = <<>>
           /\ alerts = <<>>
           /\ batch_i = 0
           /\ batch_pos = 0
           /\ json_resp = NoInstruments
           /\ gets = NoGets
           /\ reqs = <<>>
           /\ okSyms = {}
           /\ calls = <<>>
           /\ ~evaluated
           /\ ~exc
           /\ ~raised

C20_Witness ==
    /\ pc = "start"
    /\ failed
    /\ due

====
